---- MODULE Spec2Model ----
(***************************************************************************)
(* Integrated Stock Risk Calculator (Streamlit, two tabs), and the Short   *)
(* Trade tab of the Pro edition, the v2.1 calculator and tab 1 of the      *)
(* light/dark variant, separate scripts with their own widgets.            *)
(*                                                                         *)
(* The script is rerun from top to bottom on every user interaction; one   *)
(* action of this model is one complete script run.  Session state         *)
(* (last_trade, trade_log) and the widget values survive between runs.     *)
(*                                                                         *)
(* Amounts are exact decimals held as integers in paisa (1/100 PKR);       *)
(* widget amounts are whole rupees (commission and slippage half rupees),  *)
(* percentages are whole percent, so every percentage of an amount is a    *)
(* whole number of paisa.  A reward:risk ratio is held in thousandths.     *)
(* An optional value (Python None or a value) is a sequence of length <= 1.*)
(* The 'Date' and 'Stock' columns of the summaries take no part in any     *)
(* calculation and are left out.                                           *)
(***************************************************************************)
EXTENDS Integers, Sequences, FiniteSets, TLC

VARIABLES
    w1,          \* tab 1 widget values
    w2,          \* tab 2 widget values
    last_trade,  \* st.session_state['last_trade']
    trade_log,   \* st.session_state['trade_log']
    out1,        \* what the last script run computed in tab 1
    out2,        \* what the last script run computed in tab 2
    w3,          \* Pro edition: the widget values of the Short Trade tab
    out3,        \* Pro edition: what the last run computed in the Short Trade tab
    w21,         \* v2.1: the text typed into the fields of both tabs
    out21,       \* v2.1: what the last script run computed
    wld,         \* light/dark variant: the widget values of tab 1
    saved_values,\* light/dark variant: st.session_state.saved_values
    outld        \* light/dark variant: what the last run computed in tab 1

\* the variables of the scripts other than the integrated calculator
pro == <<w3, out3>>
v21 == <<w21, out21>>
lightdark == <<wld, saved_values, outld>>

vars == <<w1, w2, last_trade, trade_log, out1, out2, pro, v21, lightdark>>

----------------------------------------------------------------------------
(* Bounds of the model *)

\* prices range over 0..MaxPrice rupees
MaxPrice == 2
\* investment, capital and absolute max risk range over 0..MaxAmount rupees
MaxAmount == 5
\* commission and slippage range over 0..MaxCost half rupees
MaxCost == 1
\* percentages range over the multiples of 100/PctSteps
PctSteps == 2
\* rows kept in the session trade log
MaxLog == 1

----------------------------------------------------------------------------
(* Units and optional values *)

PKR(n) == 100 * n
HalfPKR(n) == 50 * n

None == << >>
Some(v) == << v >>

\* Python round(n / d, 3) for d > 0, in thousandths: nearest, ties to even
round3(n, d) ==
    LET q == (1000 * n) \div d
        r == (1000 * n) % d
    IN  IF 2 * r < d THEN q
        ELSE IF 2 * r > d THEN q + 1
        ELSE IF q % 2 = 0 THEN q ELSE q + 1

----------------------------------------------------------------------------
(* Helper functions *)

\* Whether a helper raises ZeroDivisionError: its division is reached when the
\* guard before it lets the call through, and raises when the divisor is 0.
raises_calc_shares_from_investment(total_investment, current_price) ==
    LET divides == ~(current_price <= 0)
    IN  divides /\ current_price = 0

\* mutant: only a negative risk per share returns early
raises_calc_shares_by_risk_negative(max_risk, entry_price, stop_loss) ==
    LET risk_per_share == entry_price - stop_loss
        divides == ~(risk_per_share < 0)
    IN  divides /\ risk_per_share = 0

raises_calc_shares_by_risk(max_risk, entry_price, stop_loss) ==
    LET risk_per_share == entry_price - stop_loss
        divides == ~(risk_per_share <= 0)
    IN  divides /\ risk_per_share = 0

raises_calc_metrics(entry_price, stop_loss, target_price, shares, commission, slippage) ==
    LET adj_risk_per_share == (entry_price - stop_loss) + commission + slippage
        divides == adj_risk_per_share > 0
    IN  divides /\ adj_risk_per_share = 0

\* mutant: the share count of the saved trade returned when there is one
calc_shares_from_investment_cached(total_investment, current_price) ==
    IF last_trade # None THEN last_trade[1].Shares
    ELSE IF current_price <= 0 THEN 0
    ELSE total_investment \div current_price

\* mutant: a non-positive price replaced by the smallest price, one paisa
calc_shares_from_investment_floor_price(total_investment, current_price) ==
    IF current_price <= 0 THEN total_investment
    ELSE total_investment \div current_price

\* mutant: the remainder of the division taken for its quotient
calc_shares_from_investment_mod(total_investment, current_price) ==
    IF current_price <= 0 THEN 0
    ELSE total_investment % current_price

\* mutant: the quotient rounded up instead of down
calc_shares_from_investment_ceil(total_investment, current_price) ==
    IF current_price <= 0 THEN 0
    ELSE (total_investment + current_price - 1) \div current_price

calc_shares_from_investment(total_investment, current_price) ==
    IF current_price <= 0 THEN 0
    ELSE total_investment \div current_price

\* mutant: the distance between entry and stop taken on whichever side the stop is
calc_shares_by_risk_short(max_risk, entry_price, stop_loss) ==
    LET risk_per_share == IF stop_loss > entry_price
                          THEN stop_loss - entry_price
                          ELSE entry_price - stop_loss
    IN  IF risk_per_share <= 0
        THEN [shares |-> 0, risk_per_share |-> risk_per_share]
        ELSE [shares |-> max_risk \div risk_per_share,
              risk_per_share |-> risk_per_share]

\* mutant: the quotient rounded to the nearest share count
calc_shares_by_risk_nearest(max_risk, entry_price, stop_loss) ==
    LET risk_per_share == entry_price - stop_loss
    IN  IF risk_per_share <= 0
        THEN [shares |-> 0, risk_per_share |-> risk_per_share]
        ELSE [shares |-> (2 * max_risk + risk_per_share) \div (2 * risk_per_share),
              risk_per_share |-> risk_per_share]

\* mutant: the risk budget divided by the entry price
calc_shares_by_risk_entry(max_risk, entry_price, stop_loss) ==
    LET risk_per_share == entry_price - stop_loss
    IN  IF risk_per_share <= 0
        THEN [shares |-> 0, risk_per_share |-> risk_per_share]
        ELSE [shares |-> max_risk \div entry_price,
              risk_per_share |-> risk_per_share]

\* mutant: an invalid stop returns a zero risk per share
calc_shares_by_risk_zero(max_risk, entry_price, stop_loss) ==
    LET risk_per_share == entry_price - stop_loss
    IN  IF risk_per_share <= 0
        THEN [shares |-> 0, risk_per_share |-> 0]
        ELSE [shares |-> max_risk \div risk_per_share,
              risk_per_share |-> risk_per_share]

calc_shares_by_risk(max_risk, entry_price, stop_loss) ==
    LET risk_per_share == entry_price - stop_loss
    IN  IF risk_per_share <= 0
        THEN [shares |-> 0, risk_per_share |-> risk_per_share]
        ELSE [shares |-> max_risk \div risk_per_share,
              risk_per_share |-> risk_per_share]

\* mutant: the ratio guarded against a zero divisor only
calc_metrics_nonzero(entry_price, stop_loss, target_price, shares, commission, slippage) ==
    LET risk_per_share == entry_price - stop_loss
        profit_per_share == target_price - entry_price
        adj_risk_per_share == risk_per_share + commission + slippage
        adj_profit_per_share == profit_per_share - commission - slippage
    IN  [risk_per_share |-> risk_per_share,
         adj_risk_per_share |-> adj_risk_per_share,
         profit_per_share |-> profit_per_share,
         adj_profit_per_share |-> adj_profit_per_share,
         total_risk |-> adj_risk_per_share * shares,
         total_profit |-> adj_profit_per_share * shares,
         reward_risk_ratio |->
             IF adj_risk_per_share > 0
             THEN Some(round3(adj_profit_per_share, adj_risk_per_share))
             ELSE IF adj_risk_per_share < 0
             THEN Some(round3(-adj_profit_per_share, -adj_risk_per_share))
             ELSE None]

\* mutant: the ratio of the unadjusted per-share values
calc_metrics_raw_ratio(entry_price, stop_loss, target_price, shares, commission, slippage) ==
    LET risk_per_share == entry_price - stop_loss
        profit_per_share == target_price - entry_price
        adj_risk_per_share == risk_per_share + commission + slippage
        adj_profit_per_share == profit_per_share - commission - slippage
    IN  [risk_per_share |-> risk_per_share,
         adj_risk_per_share |-> adj_risk_per_share,
         profit_per_share |-> profit_per_share,
         adj_profit_per_share |-> adj_profit_per_share,
         total_risk |-> adj_risk_per_share * shares,
         total_profit |-> adj_profit_per_share * shares,
         reward_risk_ratio |->
             IF adj_risk_per_share > 0 /\ risk_per_share > 0
             THEN Some(round3(profit_per_share, risk_per_share))
             ELSE None]

\* mutant: the costs taken off the risk and added to the reward
calc_metrics_optimistic(entry_price, stop_loss, target_price, shares, commission, slippage) ==
    LET risk_per_share == entry_price - stop_loss
        profit_per_share == target_price - entry_price
        adj_risk_per_share == risk_per_share - commission - slippage
        adj_profit_per_share == profit_per_share + commission + slippage
    IN  [risk_per_share |-> risk_per_share,
         adj_risk_per_share |-> adj_risk_per_share,
         profit_per_share |-> profit_per_share,
         adj_profit_per_share |-> adj_profit_per_share,
         total_risk |-> adj_risk_per_share * shares,
         total_profit |-> adj_profit_per_share * shares,
         reward_risk_ratio |->
             IF adj_risk_per_share > 0
             THEN Some(round3(adj_profit_per_share, adj_risk_per_share))
             ELSE None]

calc_metrics(entry_price, stop_loss, target_price, shares, commission, slippage) ==
    LET risk_per_share == entry_price - stop_loss
        profit_per_share == target_price - entry_price
        adj_risk_per_share == risk_per_share + commission + slippage
        adj_profit_per_share == profit_per_share - commission - slippage
    IN  [risk_per_share |-> risk_per_share,
         adj_risk_per_share |-> adj_risk_per_share,
         profit_per_share |-> profit_per_share,
         adj_profit_per_share |-> adj_profit_per_share,
         total_risk |-> adj_risk_per_share * shares,
         total_profit |-> adj_profit_per_share * shares,
         reward_risk_ratio |->
             IF adj_risk_per_share > 0
             THEN Some(round3(adj_profit_per_share, adj_risk_per_share))
             ELSE None]

----------------------------------------------------------------------------
(* Widgets: defaults and the values a user may have entered *)

\* the defaults of the tab 1 widgets, prefilled from last_trade when saved
Default1(lt) ==
    [total_investment |-> IF lt # None THEN lt[1].Investment ELSE PKR(50000),
     current_price    |-> IF lt # None THEN lt[1].Current_Price ELSE PKR(150),
     commission       |-> 0,
     slippage         |-> 0,
     stop_loss        |-> IF lt # None THEN lt[1].Stop_Loss ELSE PKR(140),
     target_price     |-> IF lt # None THEN lt[1].Target_Price ELSE PKR(180),
     max_position_pct |-> 0]

\* the defaults of the tab 2 widgets, prefilled from last_trade when saved
Default2(lt) ==
    [entry_price2    |-> IF lt # None THEN lt[1].Current_Price ELSE PKR(150),
     stop_loss2      |-> IF lt # None THEN lt[1].Stop_Loss ELSE PKR(140),
     target2         |-> IF lt # None THEN lt[1].Target_Price ELSE PKR(180),
     capital2        |-> IF lt # None THEN lt[1].Investment ELSE PKR(100000),
     risk_input_type |-> "PKR (absolute)",
     max_risk_pk     |-> PKR(5000),
     percent         |-> 2]

Prices == { PKR(n) : n \in 0..MaxPrice }
Amounts == { PKR(n) : n \in 0..MaxAmount }
Costs == { HalfPKR(n) : n \in 0..MaxCost }
Percents == { (100 * k) \div PctSteps : k \in 0..PctSteps }

\* a target at the bottom or at the top of the price range
Targets == {PKR(0), PKR(MaxPrice)}

\* slippage: none, or half a rupee
Tab1Inputs ==
    [total_investment : Amounts, current_price : Prices,
     commission : Costs, slippage : {0, HalfPKR(1)},
     stop_loss : Prices, target_price : Targets,
     max_position_pct : Percents]

\* the widget of the risk mode not chosen is not rendered and keeps its default
Tab2Inputs ==
    [entry_price2 : Prices, stop_loss2 : Prices, target2 : Targets,
     capital2 : Amounts, risk_input_type : {"PKR (absolute)"},
     max_risk_pk : Amounts, percent : {Default2(None).percent}]
    \cup
    [entry_price2 : Prices, stop_loss2 : Prices, target2 : Targets,
     capital2 : Amounts, risk_input_type : {"% of Capital"},
     max_risk_pk : {Default2(None).max_risk_pk}, percent : Percents]

\* 500 shares of the default setup, with commission 1 and slippage 0.5
CostedSetup ==
    [Default1(None) EXCEPT !.total_investment = PKR(75000),
                           !.commission = PKR(1), !.slippage = HalfPKR(1)]

----------------------------------------------------------------------------
(* Tab 1: Investment-based calculator *)

\* mutant: the metrics not recomputed after the cap
tab1_portfolio_cap_stale(w, pos) ==
    IF w.max_position_pct > 0
    THEN IF w.current_price = 0
         THEN [status |-> "ZeroDivisionError", warned |-> FALSE,
               shares |-> pos.shares,
               required_investment |-> pos.required_investment,
               metrics |-> pos.metrics]
         ELSE LET allowed_shares ==
                      (w.max_position_pct * w.total_investment)
                          \div (100 * w.current_price)
              IN  IF pos.shares > allowed_shares
                  THEN [status |-> "ok", warned |-> TRUE,
                        shares |-> allowed_shares,
                        required_investment |-> allowed_shares * w.current_price,
                        metrics |-> pos.metrics]
                  ELSE [status |-> "ok", warned |-> FALSE,
                        shares |-> pos.shares,
                        required_investment |-> pos.required_investment,
                        metrics |-> pos.metrics]
    ELSE [status |-> "ok", warned |-> FALSE,
          shares |-> pos.shares,
          required_investment |-> pos.required_investment,
          metrics |-> pos.metrics]

\* mutant: the metrics recomputed without commission and slippage
tab1_portfolio_cap_no_costs(w, pos) ==
    IF w.max_position_pct > 0
    THEN IF w.current_price = 0
         THEN [status |-> "ZeroDivisionError", warned |-> FALSE,
               shares |-> pos.shares,
               required_investment |-> pos.required_investment,
               metrics |-> pos.metrics]
         ELSE LET allowed_shares ==
                      (w.max_position_pct * w.total_investment)
                          \div (100 * w.current_price)
              IN  IF pos.shares > allowed_shares
                  THEN [status |-> "ok", warned |-> TRUE,
                        shares |-> allowed_shares,
                        required_investment |-> allowed_shares * w.current_price,
                        metrics |-> calc_metrics(w.current_price, w.stop_loss,
                                                 w.target_price, allowed_shares, 0, 0)]
                  ELSE [status |-> "ok", warned |-> FALSE,
                        shares |-> pos.shares,
                        required_investment |-> pos.required_investment,
                        metrics |-> pos.metrics]
    ELSE [status |-> "ok", warned |-> FALSE,
          shares |-> pos.shares,
          required_investment |-> pos.required_investment,
          metrics |-> pos.metrics]

\* mutant: the cap taken as a percentage of the position's value
tab1_portfolio_cap_of_position(w, pos) ==
    IF w.max_position_pct > 0
    THEN IF w.current_price = 0
         THEN [status |-> "ZeroDivisionError", warned |-> FALSE,
               shares |-> pos.shares,
               required_investment |-> pos.required_investment,
               metrics |-> pos.metrics]
         ELSE LET allowed_shares ==
                      (w.max_position_pct * pos.required_investment)
                          \div (100 * w.current_price)
              IN  IF pos.shares > allowed_shares
                  THEN [status |-> "ok", warned |-> TRUE,
                        shares |-> allowed_shares,
                        required_investment |-> allowed_shares * w.current_price,
                        metrics |-> calc_metrics(w.current_price, w.stop_loss,
                                                 w.target_price, allowed_shares,
                                                 w.commission, w.slippage)]
                  ELSE [status |-> "ok", warned |-> FALSE,
                        shares |-> pos.shares,
                        required_investment |-> pos.required_investment,
                        metrics |-> pos.metrics]
    ELSE [status |-> "ok", warned |-> FALSE,
          shares |-> pos.shares,
          required_investment |-> pos.required_investment,
          metrics |-> pos.metrics]

\* mutant: the cap applied for a percentage of 0 as well
tab1_portfolio_cap_always(w, pos) ==
    IF w.max_position_pct >= 0
    THEN IF w.current_price = 0
         THEN [status |-> "ZeroDivisionError", warned |-> FALSE,
               shares |-> pos.shares,
               required_investment |-> pos.required_investment,
               metrics |-> pos.metrics]
         ELSE LET allowed_shares ==
                      (w.max_position_pct * w.total_investment)
                          \div (100 * w.current_price)
              IN  IF pos.shares > allowed_shares
                  THEN [status |-> "ok", warned |-> TRUE,
                        shares |-> allowed_shares,
                        required_investment |-> allowed_shares * w.current_price,
                        metrics |-> calc_metrics(w.current_price, w.stop_loss,
                                                 w.target_price, allowed_shares,
                                                 w.commission, w.slippage)]
                  ELSE [status |-> "ok", warned |-> FALSE,
                        shares |-> pos.shares,
                        required_investment |-> pos.required_investment,
                        metrics |-> pos.metrics]
    ELSE [status |-> "ok", warned |-> FALSE,
          shares |-> pos.shares,
          required_investment |-> pos.required_investment,
          metrics |-> pos.metrics]

\* mutant: the allowed share count rounded up
tab1_portfolio_cap_ceil(w, pos) ==
    IF w.max_position_pct > 0
    THEN IF w.current_price = 0
         THEN [status |-> "ZeroDivisionError", warned |-> FALSE,
               shares |-> pos.shares,
               required_investment |-> pos.required_investment,
               metrics |-> pos.metrics]
         ELSE LET allowed_shares ==
                      (w.max_position_pct * w.total_investment
                           + 100 * w.current_price - 1)
                          \div (100 * w.current_price)
              IN  IF pos.shares > allowed_shares
                  THEN [status |-> "ok", warned |-> TRUE,
                        shares |-> allowed_shares,
                        required_investment |-> allowed_shares * w.current_price,
                        metrics |-> calc_metrics(w.current_price, w.stop_loss,
                                                 w.target_price, allowed_shares,
                                                 w.commission, w.slippage)]
                  ELSE [status |-> "ok", warned |-> FALSE,
                        shares |-> pos.shares,
                        required_investment |-> pos.required_investment,
                        metrics |-> pos.metrics]
    ELSE [status |-> "ok", warned |-> FALSE,
          shares |-> pos.shares,
          required_investment |-> pos.required_investment,
          metrics |-> pos.metrics]

\* the portfolio cap; pos is the candidate position
tab1_portfolio_cap(w, pos) ==
    IF w.max_position_pct > 0
    THEN IF w.current_price = 0
         THEN [status |-> "ZeroDivisionError", warned |-> FALSE,
               shares |-> pos.shares,
               required_investment |-> pos.required_investment,
               metrics |-> pos.metrics]
         ELSE LET allowed_shares ==
                      (w.max_position_pct * w.total_investment)
                          \div (100 * w.current_price)
              IN  IF pos.shares > allowed_shares
                  THEN [status |-> "ok", warned |-> TRUE,
                        shares |-> allowed_shares,
                        required_investment |-> allowed_shares * w.current_price,
                        metrics |-> calc_metrics(w.current_price, w.stop_loss,
                                                 w.target_price, allowed_shares,
                                                 w.commission, w.slippage)]
                  ELSE [status |-> "ok", warned |-> FALSE,
                        shares |-> pos.shares,
                        required_investment |-> pos.required_investment,
                        metrics |-> pos.metrics]
    ELSE [status |-> "ok", warned |-> FALSE,
          shares |-> pos.shares,
          required_investment |-> pos.required_investment,
          metrics |-> pos.metrics]

\* the calculations of tab 1: shown is what the Results metrics display
Tab1(w) ==
    LET shares == calc_shares_from_investment(w.total_investment, w.current_price)
        shown == [shares |-> shares,
                  required_investment |-> shares * w.current_price,
                  metrics |-> calc_metrics(w.current_price, w.stop_loss,
                                           w.target_price, shares,
                                           w.commission, w.slippage)]
        capped == tab1_portfolio_cap(w, shown)
        raised_in ==
            IF raises_calc_shares_from_investment(w.total_investment,
                                                  w.current_price)
            THEN "calc_shares_from_investment"
            ELSE IF raises_calc_metrics(w.current_price, w.stop_loss,
                                        w.target_price, shares,
                                        w.commission, w.slippage)
            THEN "calc_metrics"
            ELSE IF capped.status # "ok" THEN "portfolio cap"
            ELSE "nowhere"
    IN  [status |-> IF raised_in = "nowhere" THEN "ok" ELSE "ZeroDivisionError",
         raised_in |-> raised_in,
         shown |-> shown,
         warned |-> capped.warned,
         shares |-> capped.shares,
         required_investment |-> capped.required_investment,
         metrics |-> capped.metrics]

\* the summary row of tab 1
summary(w, o) ==
    [Investment |-> w.total_investment,
     Current_Price |-> w.current_price,
     Stop_Loss |-> w.stop_loss,
     Target_Price |-> w.target_price,
     Shares |-> o.shares,
     Commission |-> w.commission,
     Slippage |-> w.slippage,
     Total_Risk |-> o.metrics.total_risk,
     Total_Profit |-> o.metrics.total_profit,
     Reward_Risk |-> o.metrics.reward_risk_ratio]

----------------------------------------------------------------------------
(* Tab 2: Position sizing by risk limit *)

\* mutant: the percentage applied as a multiple of the capital
computed_max_risk_multiple(w) ==
    IF w.risk_input_type = "PKR (absolute)"
    THEN w.max_risk_pk
    ELSE w.percent * w.capital2

computed_max_risk(w) ==
    IF w.risk_input_type = "PKR (absolute)"
    THEN w.max_risk_pk
    ELSE (w.percent * w.capital2) \div 100

missing(w) ==
    (IF w.entry_price2 <= 0 THEN {"Entry Price"} ELSE {})
    \cup (IF w.stop_loss2 <= 0 THEN {"Stop Loss"} ELSE {})
    \cup (IF computed_max_risk(w) <= 0 THEN {"Max Risk"} ELSE {})

\* the message under 'Checks & Guidance'
guidance(raw_risk_per_share, shares_by_risk) ==
    IF raw_risk_per_share <= 0 THEN "error: Stop Loss must be lower than Entry Price"
    ELSE IF shares_by_risk = 0 THEN "warning: Computed shares is 0"
    ELSE "success: Position sizing computed"

min(a, b) == IF a <= b THEN a ELSE b

\* mutant: the affordable share count taken whatever the share count by risk
tab2_adjust_shares_affordable(w, pos) ==
    IF w.entry_price2 = 0
    THEN [status |-> "ZeroDivisionError",
          shares |-> pos.shares,
          required_investment |-> pos.required_investment,
          metrics |-> pos.metrics]
    ELSE LET affordable_shares == w.capital2 \div w.entry_price2
         IN  [status |-> "ok",
              shares |-> affordable_shares,
              required_investment |-> affordable_shares * w.entry_price2,
              metrics |-> calc_metrics(w.entry_price2, w.stop_loss2, w.target2,
                                       affordable_shares, 0, 0)]

\* mutant: the larger of the two share counts taken
tab2_adjust_shares_max(w, pos) ==
    IF w.entry_price2 = 0
    THEN [status |-> "ZeroDivisionError",
          shares |-> pos.shares,
          required_investment |-> pos.required_investment,
          metrics |-> pos.metrics]
    ELSE LET affordable_shares == w.capital2 \div w.entry_price2
             shares_by_risk == IF pos.shares >= affordable_shares
                               THEN pos.shares ELSE affordable_shares
         IN  [status |-> "ok",
              shares |-> shares_by_risk,
              required_investment |-> shares_by_risk * w.entry_price2,
              metrics |-> calc_metrics(w.entry_price2, w.stop_loss2, w.target2,
                                       shares_by_risk, 0, 0)]

\* mutant: the metrics of the position by risk kept after the adjustment
tab2_adjust_shares_stale(w, pos) ==
    IF w.entry_price2 = 0
    THEN [status |-> "ZeroDivisionError",
          shares |-> pos.shares,
          required_investment |-> pos.required_investment,
          metrics |-> pos.metrics]
    ELSE LET affordable_shares == w.capital2 \div w.entry_price2
             shares_by_risk == min(pos.shares, affordable_shares)
         IN  [status |-> "ok",
              shares |-> shares_by_risk,
              required_investment |-> shares_by_risk * w.entry_price2,
              metrics |-> pos.metrics]

\* the button 'Adjust shares to fit available capital'; pos is the position by risk
tab2_adjust_shares(w, pos) ==
    IF w.entry_price2 = 0
    THEN [status |-> "ZeroDivisionError",
          shares |-> pos.shares,
          required_investment |-> pos.required_investment,
          metrics |-> pos.metrics]
    ELSE LET affordable_shares == w.capital2 \div w.entry_price2
             shares_by_risk == min(pos.shares, affordable_shares)
         IN  [status |-> "ok",
              shares |-> shares_by_risk,
              required_investment |-> shares_by_risk * w.entry_price2,
              metrics |-> calc_metrics(w.entry_price2, w.stop_loss2, w.target2,
                                       shares_by_risk, 0, 0)]

\* the calculations of tab 2: shown is what 'Position Sizing Results' displays
Tab2(w, adjust) ==
    LET by_risk == calc_shares_by_risk(computed_max_risk(w), w.entry_price2,
                                       w.stop_loss2)
        shown == [shares |-> by_risk.shares,
                  required_investment |-> by_risk.shares * w.entry_price2,
                  metrics |-> calc_metrics(w.entry_price2, w.stop_loss2,
                                           w.target2, by_risk.shares, 0, 0)]
        final == IF adjust THEN tab2_adjust_shares(w, shown)
                 ELSE [status |-> "ok", shares |-> shown.shares,
                       required_investment |-> shown.required_investment,
                       metrics |-> shown.metrics]
        raised_in ==
            IF raises_calc_shares_by_risk(computed_max_risk(w), w.entry_price2,
                                          w.stop_loss2)
            THEN "calc_shares_by_risk"
            ELSE IF raises_calc_metrics(w.entry_price2, w.stop_loss2, w.target2,
                                        by_risk.shares, 0, 0)
            THEN "calc_metrics"
            ELSE IF final.status # "ok" THEN "adjust shares"
            ELSE "nowhere"
    IN  [status |-> IF raised_in = "nowhere" THEN "ok" ELSE "ZeroDivisionError",
         raised_in |-> raised_in,
         computed_max_risk |-> computed_max_risk(w),
         missing |-> missing(w),
         raw_risk_per_share |-> by_risk.risk_per_share,
         shown |-> shown,
         guidance |-> guidance(by_risk.risk_per_share, by_risk.shares),
         exceeds_capital |-> shown.required_investment > w.capital2,
         adjusted |-> adjust,
         shares |-> final.shares,
         required_investment |-> final.required_investment,
         metrics |-> final.metrics]

\* the summary row of tab 2
summary2(w, o) ==
    [Entry_Price |-> w.entry_price2,
     Stop_Loss |-> w.stop_loss2,
     Target_Price |-> w.target2,
     Shares_by_Risk |-> o.shares,
     Required_Investment |-> o.required_investment,
     Max_Risk_Used |-> o.computed_max_risk,
     Total_Risk |-> o.metrics.total_risk,
     Total_Profit |-> o.metrics.total_profit,
     Reward_Risk |-> o.metrics.reward_risk_ratio]

----------------------------------------------------------------------------
(* Pro edition, tab 3: Short (sell first) trade calculator *)

\* the widgets have no default: they start at their minimum
Default3 ==
    [total_investment_short |-> 0, entry_price_short |-> 0,
     stop_loss_short |-> 0, target_price_short |-> 0]

Tab3Inputs ==
    [total_investment_short : Amounts, entry_price_short : Prices,
     stop_loss_short : Prices, target_price_short : Prices]

\* the exact value of a division that is not floored: num / den
Quotient(num, den) == [num |-> num, den |-> den]

\* the calculations of the Short Trade tab; nothing is computed or rendered
\* while one of the four inputs is 0
Tab3(w) ==
    IF /\ w.total_investment_short # 0 /\ w.entry_price_short # 0
       /\ w.stop_loss_short # 0 /\ w.target_price_short # 0
    THEN LET shares_short ==
                 IF w.entry_price_short # 0
                 THEN Quotient(w.total_investment_short, w.entry_price_short)
                 ELSE Quotient(0, 1)
             risk_per_share_short == w.stop_loss_short - w.entry_price_short
             reward_per_share_short == w.entry_price_short - w.target_price_short
             total_risk_short ==
                 Quotient(risk_per_share_short * shares_short.num,
                          shares_short.den)
             total_reward_short ==
                 Quotient(reward_per_share_short * shares_short.num,
                          shares_short.den)
         IN  [status |-> "ok", rendered |-> TRUE,
              shares_short |-> shares_short,
              risk_per_share_short |-> risk_per_share_short,
              reward_per_share_short |-> reward_per_share_short,
              total_risk_short |-> total_risk_short,
              total_reward_short |-> total_reward_short,
              reward_risk_ratio_short |->
                  IF total_risk_short.num # 0
                  THEN Quotient(total_reward_short.num * total_risk_short.den,
                                total_risk_short.num * total_reward_short.den)
                  ELSE Quotient(0, 1)]
    ELSE [status |-> "ok", rendered |-> FALSE]

----------------------------------------------------------------------------
(* v2.1 calculator: text fields, parsed by to_float *)

\* what a text field may hold: nothing, text that is no number, a number, a
\* number written with 'PKR' and thousands separators
Blank == [kind |-> "blank", number |-> 0]
Junk == [kind |-> "not a number", number |-> 0]
Plain(n) == [kind |-> "number", number |-> n]
Decorated(n) == [kind |-> "PKR and commas", number |-> n]

\* 'comm_str or 0.0': a blank text is replaced by the float 0.0
or_zero(text) ==
    IF text.kind = "blank" THEN [kind |-> "float", number |-> 0] ELSE text

\* a falsy argument ('' or 0.0) and unparsable text give None
to_float(x) ==
    IF x.kind = "blank" THEN None
    ELSE IF x.kind = "float" /\ x.number = 0 THEN None
    ELSE IF x.kind = "not a number" THEN None
    ELSE Some(x.number)

\* Python truthiness of an optional number: neither None nor 0
truthy(x) == x # None /\ x[1] # 0

\* Python round(n / d, 2) for d # 0, in hundredths: nearest, ties to even
round2(n, d) ==
    LET nn == IF d < 0 THEN -n ELSE n
        dd == IF d < 0 THEN -d ELSE d
        q == (100 * nn) \div dd
        r == (100 * nn) % dd
    IN  IF 2 * r < dd THEN q
        ELSE IF 2 * r > dd THEN q + 1
        ELSE IF q % 2 = 0 THEN q ELSE q + 1

compute_reward_risk(profit_per_share, risk_per_share) ==
    IF profit_per_share = None \/ risk_per_share = None THEN None
    ELSE IF risk_per_share[1] = 0 THEN None
    ELSE Some(round2(profit_per_share[1], risk_per_share[1]))

safe_shares_from_investment(total_investment, entry_price) ==
    IF ~truthy(total_investment) \/ ~truthy(entry_price) THEN None
    ELSE IF entry_price[1] <= 0 THEN None
    ELSE Some(total_investment[1] \div entry_price[1])

safe_shares_by_risk(max_risk, entry_price, stop_loss) ==
    IF ~truthy(max_risk) \/ ~truthy(entry_price) \/ ~truthy(stop_loss)
    THEN [shares |-> None, risk_per_share |-> None]
    ELSE LET risk_per_share == entry_price[1] - stop_loss[1]
         IN  IF risk_per_share <= 0
             THEN [shares |-> Some(0), risk_per_share |-> Some(risk_per_share)]
             ELSE [shares |-> Some(max_risk[1] \div risk_per_share),
                   risk_per_share |-> Some(risk_per_share)]

Default21 ==
    [entry_str |-> Blank, stop_str |-> Blank, target_str |-> Blank,
     invest_str |-> Blank, comm_str |-> Blank,
     entry2_str |-> Blank, stop2_str |-> Blank, target2_str |-> Blank,
     risk_mode |-> "PKR (absolute)", maxrisk_str |-> Blank,
     capital_str |-> Blank, pct_str |-> Blank]

PriceTexts ==
    {Blank, Junk} \cup { Plain(p) : p \in Prices }
                  \cup { Decorated(p) : p \in Prices }
AmountTexts == {Blank, Plain(0), Plain(PKR(MaxAmount)), Decorated(PKR(MaxAmount))}
CostTexts == {Blank} \cup { Plain(c) : c \in Costs }
PercentTexts == {Blank} \cup { Plain(p) : p \in Percents }

\* the fields of one tab filled in, those of the other left blank; the field
\* of the risk mode not chosen is not rendered and its text is ''
V21Inputs ==
    { [Default21 EXCEPT !.entry_str = e, !.stop_str = s, !.target_str = t,
                        !.invest_str = i, !.comm_str = c] :
          e \in PriceTexts, s \in PriceTexts, t \in PriceTexts,
          i \in AmountTexts, c \in CostTexts }
    \cup
    { [Default21 EXCEPT !.entry2_str = e, !.stop2_str = s, !.target2_str = t,
                        !.maxrisk_str = m] :
          e \in PriceTexts, s \in PriceTexts, t \in PriceTexts,
          m \in AmountTexts }
    \cup
    { [Default21 EXCEPT !.entry2_str = e, !.stop2_str = s, !.target2_str = t,
                        !.risk_mode = "% of capital",
                        !.capital_str = k, !.pct_str = p] :
          e \in PriceTexts, s \in PriceTexts, t \in PriceTexts,
          k \in AmountTexts, p \in PercentTexts }

\* tab 1 of v2.1
Tab1_v21(w) ==
    LET entry == to_float(w.entry_str)
        stop == to_float(w.stop_str)
        target == to_float(w.target_str)
        invest == to_float(w.invest_str)
        comm == to_float(or_zero(w.comm_str))
        comm_or_0 == IF truthy(comm) THEN comm[1] ELSE 0
        shares == IF truthy(invest) /\ truthy(entry)
                  THEN safe_shares_from_investment(invest, entry) ELSE None
        risk_per_share == IF truthy(entry) /\ truthy(stop)
                          THEN Some(entry[1] - stop[1]) ELSE None
        profit_per_share == IF truthy(target) /\ truthy(entry)
                            THEN Some(target[1] - entry[1]) ELSE None
        adj_risk == IF truthy(risk_per_share)
                    THEN Some(risk_per_share[1] + comm_or_0) ELSE None
        adj_profit == IF truthy(profit_per_share)
                      THEN Some(profit_per_share[1] - comm_or_0) ELSE None
    IN  [shares |-> shares,
         risk_per_share |-> risk_per_share,
         profit_per_share |-> profit_per_share,
         adj_risk |-> adj_risk,
         adj_profit |-> adj_profit,
         total_risk |-> IF truthy(adj_risk) /\ truthy(shares)
                        THEN Some(adj_risk[1] * shares[1]) ELSE None,
         total_profit |-> IF truthy(adj_profit) /\ truthy(shares)
                          THEN Some(adj_profit[1] * shares[1]) ELSE None,
         rr_ratio |-> compute_reward_risk(adj_profit, adj_risk)]

\* tab 2 of v2.1; nothing is computed while entry, stop or max risk is
\* missing or 0
Tab2_v21(w) ==
    LET entry2 == to_float(w.entry2_str)
        stop2 == to_float(w.stop2_str)
        target2 == to_float(w.target2_str)
        capital2 == to_float(w.capital_str)
        pct == to_float(or_zero(w.pct_str))
        maxrisk == IF w.risk_mode = "% of capital" /\ truthy(capital2) /\ truthy(pct)
                   THEN Some((pct[1] * capital2[1]) \div 100)
                   ELSE to_float(w.maxrisk_str)
    IN  IF truthy(entry2) /\ truthy(stop2) /\ truthy(maxrisk)
        THEN LET by_risk == safe_shares_by_risk(maxrisk, entry2, stop2)
                 shares2 == by_risk.shares
                 risk_per_share2 == by_risk.risk_per_share
                 profit_per_share2 == IF truthy(target2) /\ truthy(entry2)
                                      THEN Some(target2[1] - entry2[1]) ELSE None
             IN  [rendered |-> TRUE,
                  maxrisk |-> maxrisk,
                  shares2 |-> shares2,
                  risk_per_share2 |-> risk_per_share2,
                  invest2 |-> IF truthy(shares2)
                              THEN Some(shares2[1] * entry2[1]) ELSE None,
                  profit_per_share2 |-> profit_per_share2,
                  total_profit2 |-> IF truthy(profit_per_share2) /\ truthy(shares2)
                                    THEN Some(profit_per_share2[1] * shares2[1])
                                    ELSE None,
                  rr_ratio2 |-> compute_reward_risk(profit_per_share2,
                                                    risk_per_share2)]
        ELSE [rendered |-> FALSE]

----------------------------------------------------------------------------
(* Light/dark variant, tab 1: Investment-Based Calculator *)

DefaultLD ==
    [entry_price |-> 0, target_price |-> 0, stop_loss |-> 0,
     investment_amount |-> 0, commission |-> 0]

\* 'Commission % (optional)', 0 to 10
CommissionPercents == {0, 5, 10}

LDInputs ==
    [entry_price : Prices, target_price : Prices, stop_loss : Prices,
     investment_amount : Amounts, commission : CommissionPercents]

\* what the button 'Calculate Investment-Based Risk' computes and shows
Tab1_lightdark(w) ==
    IF w.entry_price > 0 /\ w.stop_loss > 0 /\ w.investment_amount > 0
    THEN LET num_shares == Quotient(w.investment_amount, w.entry_price)
             risk_per_share == w.entry_price - w.stop_loss
             total_risk == Quotient(risk_per_share * num_shares.num,
                                    num_shares.den)
             potential_profit ==
                 Quotient((w.target_price - w.entry_price) * num_shares.num,
                          num_shares.den)
         IN  [status |-> "ok", rendered |-> TRUE, warned |-> FALSE,
              num_shares |-> num_shares,
              risk_per_share |-> risk_per_share,
              total_risk |-> total_risk,
              potential_profit |-> potential_profit,
              rr_ratio |->
                  IF total_risk.num # 0
                  THEN Quotient(potential_profit.num * total_risk.den,
                                total_risk.num * potential_profit.den)
                  ELSE Quotient(0, 1)]
    ELSE [status |-> "ok", rendered |-> FALSE, warned |-> TRUE]

----------------------------------------------------------------------------
(* The script run *)

NotRun == [status |-> "not run"]

\* Streamlit keeps a widget's value while its default is unchanged and
\* re-creates the widget, holding the new default, when the default changes
reseed2(w, old, new) ==
    [f \in DOMAIN w |->
        IF Default2(new)[f] # Default2(old)[f] THEN Default2(new)[f] ELSE w[f]]

\* a script that has not been opened; the text fields of v2.1 do not exist
\* before its first run
NoWidgets == << >>
IdlePro == w3 = Default3 /\ out3 = NotRun
IdleV21 == w21 = NoWidgets /\ out21 = NotRun
IdleLightDark == wld = DefaultLD /\ saved_values = None /\ outld = NotRun

\* The session starts empty.  The widgets hold what the user has entered: any
\* values in tab 1 with tab 2 at its defaults, the costed setup, or any values
\* in tab 2 with tab 1 at its defaults.
Init ==
    /\ \/ w1 \in Tab1Inputs /\ w2 = Default2(None)
       \/ w1 = CostedSetup /\ w2 = Default2(None)
       \/ w1 = Default1(None) /\ w2 \in Tab2Inputs
    /\ last_trade = None
    /\ trade_log = << >>
    /\ out1 = NotRun
    /\ out2 = NotRun
    /\ IdlePro /\ IdleV21 /\ IdleLightDark

\* mutant: the Adjust button stays pressed in the runs after its click
Run_sticky(button) ==
    LET o1 == Tab1(w1)
        lt == IF button = "Save values" THEN Some(summary(w1, o1)) ELSE last_trade
        nw2 == reseed2(w2, last_trade, lt)
        o2 == Tab2(nw2, \/ button = "Adjust shares"
                        \/ (out2.status # "not run" /\ out2.adjusted))
    IN  /\ w1' = w1
        /\ out1' = o1
        /\ UNCHANGED <<pro, v21, lightdark>>
        /\ IF o1.status = "ok"
           THEN /\ last_trade' = lt
                /\ w2' = nw2
                /\ out2' = o2
                /\ trade_log' =
                       IF button = "Save to log" /\ o2.status = "ok"
                       THEN Append(trade_log, summary2(nw2, o2))
                       ELSE trade_log
           ELSE /\ out2' = NotRun
                /\ UNCHANGED <<last_trade, w2, trade_log>>

\* mutant: every run saves the tab 1 summary to last_trade
Run_autosave(button) ==
    LET o1 == Tab1(w1)
        lt == Some(summary(w1, o1))
        nw2 == reseed2(w2, last_trade, lt)
        o2 == Tab2(nw2, button = "Adjust shares")
    IN  /\ w1' = w1
        /\ out1' = o1
        /\ UNCHANGED <<pro, v21, lightdark>>
        /\ IF o1.status = "ok"
           THEN /\ last_trade' = lt
                /\ w2' = nw2
                /\ out2' = o2
                /\ trade_log' =
                       IF button = "Save to log" /\ o2.status = "ok"
                       THEN Append(trade_log, summary2(nw2, o2))
                       ELSE trade_log
           ELSE /\ out2' = NotRun
                /\ UNCHANGED <<last_trade, w2, trade_log>>

\* One run of the script; button is the button whose click triggered it.
\* A run that raises stops there: nothing after the raise is executed.
\* Tab 1's prefilled widgets are re-created with the values last_trade saved
\* from them, so they hold what they held.
Run(button) ==
    LET o1 == Tab1(w1)
        lt == IF button = "Save values" THEN Some(summary(w1, o1)) ELSE last_trade
        nw2 == reseed2(w2, last_trade, lt)
        o2 == Tab2(nw2, button = "Adjust shares")
    IN  /\ w1' = w1
        /\ out1' = o1
        /\ UNCHANGED <<pro, v21, lightdark>>
        /\ IF o1.status = "ok"
           THEN /\ last_trade' = lt
                /\ w2' = nw2
                /\ out2' = o2
                /\ trade_log' =
                       IF button = "Save to log" /\ o2.status = "ok"
                       THEN Append(trade_log, summary2(nw2, o2))
                       ELSE trade_log
           ELSE /\ out2' = NotRun
                /\ UNCHANGED <<last_trade, w2, trade_log>>

\* the page is loaded, or rerun with no button pressed
Rerun == Run("none")

\* 'Save values for use in Position Sizing tab'
ClickSaveValues == out1.status = "ok" /\ Run("Save values")

\* 'Adjust shares to fit available capital'
ClickAdjust == out2.status # "not run" /\ Run("Adjust shares")

\* 'Save this position sizing to session log'
ClickSaveLog ==
    /\ out2.status = "ok"
    /\ Len(trade_log) < MaxLog
    /\ Run("Save to log")

Next == Rerun \/ ClickSaveValues \/ ClickAdjust \/ ClickSaveLog

Spec == Init /\ [][Next]_vars

\* The two scripts side by side, one setup entered in both the Position
\* Sizing tab and the Short Trade tab (capital as the investment); each
\* script has its own session and a run of one leaves the other alone.
InitDirection ==
    /\ w1 = Default1(None)
    /\ w2 \in Tab2Inputs
    /\ w3 = [total_investment_short |-> w2.capital2,
             entry_price_short |-> w2.entry_price2,
             stop_loss_short |-> w2.stop_loss2,
             target_price_short |-> w2.target2]
    /\ last_trade = None
    /\ trade_log = << >>
    /\ out1 = NotRun
    /\ out2 = NotRun
    /\ out3 = NotRun
    /\ IdleV21 /\ IdleLightDark

\* one run of the Pro edition script with the Short Trade tab filled in
RunShort ==
    /\ out3' = Tab3(w3)
    /\ UNCHANGED <<w1, w2, w3, last_trade, trade_log, out1, out2>>
    /\ UNCHANGED <<v21, lightdark>>

NextDirection == Rerun \/ RunShort

SpecDirection == InitDirection /\ [][NextDirection]_vars

\* The v2.1 calculator on its own: any text in the fields of one tab.
InitV21 ==
    /\ w1 = Default1(None) /\ w2 = Default2(None)
    /\ last_trade = None /\ trade_log = << >>
    /\ out1 = NotRun /\ out2 = NotRun
    /\ IdlePro /\ IdleLightDark
    /\ w21 \in V21Inputs
    /\ out21 = NotRun

\* one run of the v2.1 script, no button pressed
RunV21 ==
    /\ out21' = [status |-> "ok", tab1 |-> Tab1_v21(w21), tab2 |-> Tab2_v21(w21)]
    /\ UNCHANGED <<w1, w2, last_trade, trade_log, out1, out2, w21>>
    /\ UNCHANGED <<pro, lightdark>>

NextV21 == RunV21

SpecV21 == InitV21 /\ [][NextV21]_vars

\* Tab 1 of the light/dark variant on its own.
InitLightDark ==
    /\ w1 = Default1(None) /\ w2 = Default2(None)
    /\ last_trade = None /\ trade_log = << >>
    /\ out1 = NotRun /\ out2 = NotRun
    /\ IdlePro /\ IdleV21
    /\ wld \in LDInputs
    /\ saved_values = None
    /\ outld = NotRun

\* a run with no button pressed: the results are computed and shown only in
\* the run the button triggers
RerunLightDark ==
    /\ outld' = [status |-> "ok", rendered |-> FALSE, warned |-> FALSE]
    /\ UNCHANGED <<w1, w2, last_trade, trade_log, out1, out2, wld, saved_values>>
    /\ UNCHANGED <<pro, v21>>

\* 'Calculate Investment-Based Risk'
ClickCalculateLightDark ==
    /\ outld' = Tab1_lightdark(wld)
    /\ saved_values' =
           IF Tab1_lightdark(wld).rendered
           THEN Some([Entry |-> wld.entry_price, Stop |-> wld.stop_loss,
                      Target |-> wld.target_price])
           ELSE saved_values
    /\ UNCHANGED <<w1, w2, last_trade, trade_log, out1, out2, wld>>
    /\ UNCHANGED <<pro, v21>>

NextLightDark == RerunLightDark \/ ClickCalculateLightDark

SpecLightDark == InitLightDark /\ [][NextLightDark]_vars

----------------------------------------------------------------------------
(* Properties *)

Ran1 == out1.status # "not run"
Ran2 == out2.status # "not run"

\* s is the floor of n / d, for d > 0
IsFloor(s, n, d) == s * d <= n /\ n < (s + 1) * d

\* the position a tab ends its run with
Position(o) ==
    [shares |-> o.shares, required_investment |-> o.required_investment,
     metrics |-> o.metrics]

\* C1: for every entry price > 0 and total investment >= 0 the candidate share
\* count of the capital mode is floor(totalInvestment / entryPrice), and the
\* share count times the entry price never exceeds the total investment.
C1_SharesFromCapital ==
    (Ran1 /\ w1.current_price > 0 /\ w1.total_investment >= 0) =>
        /\ IsFloor(out1.shown.shares, w1.total_investment, w1.current_price)
        /\ out1.shown.shares * w1.current_price <= w1.total_investment

\* C1 witness: several shares bought, with money left over
C1_Witness ==
    /\ Ran1 /\ w1.current_price > 0
    /\ out1.shown.shares >= 2
    /\ out1.shown.shares * w1.current_price < w1.total_investment

\* C2: whenever riskPerShare = entry - stop is > 0, the share count by risk is
\* floor(maxRisk / riskPerShare) and the returned riskPerShare is that
\* difference; entry 150, stop 140, max risk 5000 give riskPerShare 10 and
\* 500 shares.
C2_SharesFromRiskLimit ==
    Ran2 =>
        /\ w2.entry_price2 - w2.stop_loss2 > 0 =>
               /\ out2.raw_risk_per_share = w2.entry_price2 - w2.stop_loss2
               /\ IsFloor(out2.shown.shares, out2.computed_max_risk,
                          w2.entry_price2 - w2.stop_loss2)
        /\ ( /\ w2.entry_price2 = PKR(150)
             /\ w2.stop_loss2 = PKR(140)
             /\ out2.computed_max_risk = PKR(5000) ) =>
               /\ out2.raw_risk_per_share = PKR(10)
               /\ out2.shown.shares = 500

\* C2 witness: the setup of 150 / 140 with a max risk of 5000 has been sized
C2_Witness ==
    /\ Ran2
    /\ w2.entry_price2 = PKR(150) /\ w2.stop_loss2 = PKR(140)
    /\ out2.computed_max_risk = PKR(5000)
    /\ out2.shown.shares = 500

\* C3: a stop on the wrong side of entry (riskPerShare <= 0) gives 0 shares
\* together with the raw non-positive riskPerShare, for every max risk; a
\* valid zero-share outcome carries a riskPerShare > 0; so the two zero
\* outcomes differ in the returned pair, and the caller reports the first as
\* an error and the second as a warning.
C3_InvalidStopDistinct ==
    Ran2 =>
        LET diff == w2.entry_price2 - w2.stop_loss2
        IN  /\ diff <= 0 =>
                   /\ out2.shown.shares = 0
                   /\ out2.raw_risk_per_share = diff
                   /\ out2.guidance = "error: Stop Loss must be lower than Entry Price"
            /\ (diff > 0 /\ out2.shown.shares = 0) =>
                   /\ out2.raw_risk_per_share > 0
                   /\ out2.guidance = "warning: Computed shares is 0"
            /\ out2.shown.shares > 0 =>
                   out2.guidance = "success: Position sizing computed"

\* C3 witness: a stop above entry with a positive max risk has been sized
C3_Witness ==
    /\ Ran2
    /\ w2.stop_loss2 > w2.entry_price2
    /\ out2.computed_max_risk > 0
    /\ out2.shown.shares = 0
    /\ out2.raw_risk_per_share < 0

\* C4: the reward:risk ratio is defined if and only if the adjusted risk per
\* share is > 0; with an adjusted risk per share <= 0 it is None (no division
\* by zero or by a negative number).
C4_RatioDefinedIffPositiveRisk ==
    /\ Ran1 =>
           LET adj == (w1.current_price - w1.stop_loss)
                          + w1.commission + w1.slippage
           IN  /\ (out1.shown.metrics.reward_risk_ratio # None) <=> (adj > 0)
               /\ (out1.metrics.reward_risk_ratio # None) <=> (adj > 0)
    /\ Ran2 =>
           LET adj == w2.entry_price2 - w2.stop_loss2
           IN  /\ (out2.shown.metrics.reward_risk_ratio # None) <=> (adj > 0)
               /\ (out2.metrics.reward_risk_ratio # None) <=> (adj > 0)

\* C4 witness: shares held with a negative adjusted risk per share
C4_Witness ==
    /\ Ran1
    /\ out1.shares > 0
    /\ (w1.current_price - w1.stop_loss) + w1.commission + w1.slippage < 0
    /\ w1.commission + w1.slippage > 0
    /\ out1.metrics.reward_risk_ratio = None

\* the fields calc_metrics derives, but for the ratio
Derived(m, entry, stop, target, shares, commission, slippage) ==
    /\ m.risk_per_share = entry - stop
    /\ m.profit_per_share = target - entry
    /\ m.adj_risk_per_share = (entry - stop) + commission + slippage
    /\ m.adj_profit_per_share = (target - entry) - commission - slippage
    /\ m.total_risk = ((entry - stop) + commission + slippage) * shares
    /\ m.total_profit = ((target - entry) - commission - slippage) * shares

\* C5: for every input the metrics are riskPerShare = entry - stop,
\* rewardPerShare = target - entry, adjustedRiskPerShare = riskPerShare +
\* commission + slippage, adjustedRewardPerShare = rewardPerShare - commission
\* - slippage, totalRisk = adjustedRiskPerShare * shares and totalReward =
\* adjustedRewardPerShare * shares, for the share count they are reported with.
C5_MetricsDerivation ==
    /\ Ran1 =>
           /\ Derived(out1.shown.metrics, w1.current_price, w1.stop_loss,
                      w1.target_price, out1.shown.shares,
                      w1.commission, w1.slippage)
           /\ Derived(out1.metrics, w1.current_price, w1.stop_loss,
                      w1.target_price, out1.shares,
                      w1.commission, w1.slippage)
    /\ Ran2 =>
           /\ Derived(out2.shown.metrics, w2.entry_price2, w2.stop_loss2,
                      w2.target2, out2.shown.shares, 0, 0)
           /\ Derived(out2.metrics, w2.entry_price2, w2.stop_loss2,
                      w2.target2, out2.shares, 0, 0)

\* C5 witness: metrics with costs, for a share count the cap has reduced
C5_Witness ==
    /\ out1.status = "ok"
    /\ out1.warned
    /\ 0 < out1.shares /\ out1.shares < out1.shown.shares
    /\ w1.commission > 0 /\ w1.slippage > 0
    /\ w1.current_price # w1.stop_loss

Abs(x) == IF x < 0 THEN -x ELSE x

\* r (in thousandths) is n / d rounded to 3 decimals, for d > 0
IsRounded3(r, n, d) == 2 * Abs(1000 * n - r * d) <= d

RatioIsRounded(m) ==
    m.adj_risk_per_share > 0 =>
        /\ m.reward_risk_ratio # None
        /\ IsRounded3(m.reward_risk_ratio[1], m.adj_profit_per_share,
                      m.adj_risk_per_share)

\* C6: when the adjusted risk per share is > 0 the ratio is the adjusted
\* reward per share divided by the adjusted risk per share, rounded to 3
\* decimals; 150 / 140 / 180 with 500 shares and no costs gives total risk
\* 5000, total profit 15000 and ratio 3.0; with commission 1 and slippage 0.5
\* the adjusted reward is 28.5, the adjusted risk 11.5 and the ratio 2.478.
C6_RatioValue ==
    /\ Ran1 =>
           /\ RatioIsRounded(out1.shown.metrics)
           /\ RatioIsRounded(out1.metrics)
           /\ ( /\ w1.current_price = PKR(150) /\ w1.stop_loss = PKR(140)
                /\ w1.target_price = PKR(180) /\ out1.shares = 500
                /\ w1.commission = PKR(1) /\ w1.slippage = HalfPKR(1) ) =>
                  /\ out1.metrics.adj_profit_per_share = HalfPKR(57)
                  /\ out1.metrics.adj_risk_per_share = HalfPKR(23)
                  /\ out1.metrics.reward_risk_ratio = Some(2478)
    /\ Ran2 =>
           /\ RatioIsRounded(out2.shown.metrics)
           /\ RatioIsRounded(out2.metrics)
           /\ ( /\ w2.entry_price2 = PKR(150) /\ w2.stop_loss2 = PKR(140)
                /\ w2.target2 = PKR(180) /\ out2.shares = 500 ) =>
                  /\ out2.metrics.total_risk = PKR(5000)
                  /\ out2.metrics.total_profit = PKR(15000)
                  /\ out2.metrics.reward_risk_ratio = Some(3000)

\* C6 witness: both setups of 500 shares, without and with costs, computed
C6_Witness ==
    /\ Ran1 /\ Ran2
    /\ w1 = CostedSetup /\ out1.shares = 500
    /\ out1.metrics.reward_risk_ratio = Some(2478)
    /\ w2 = Default2(None) /\ out2.shares = 500
    /\ out2.metrics.reward_risk_ratio = Some(3000)

Conservative(m, shares) ==
    /\ m.adj_risk_per_share >= m.risk_per_share
    /\ m.adj_profit_per_share <= m.profit_per_share
    /\ m.total_risk >= m.risk_per_share * shares
    /\ m.total_profit <= m.profit_per_share * shares

\* C7: for every commission >= 0, slippage >= 0 and shares >= 0 the metrics
\* never understate risk or overstate reward: adjustedRiskPerShare >=
\* riskPerShare, adjustedRewardPerShare <= rewardPerShare, totalRisk >= the
\* zero-cost total risk and totalReward <= the zero-cost total reward.
C7_ConservativeCosts ==
    (Ran1 /\ w1.commission >= 0 /\ w1.slippage >= 0) =>
        /\ out1.shown.metrics.risk_per_share = w1.current_price - w1.stop_loss
        /\ out1.shown.metrics.profit_per_share = w1.target_price - w1.current_price
        /\ out1.metrics.risk_per_share = w1.current_price - w1.stop_loss
        /\ out1.metrics.profit_per_share = w1.target_price - w1.current_price
        /\ Conservative(out1.shown.metrics, out1.shown.shares)
        /\ Conservative(out1.metrics, out1.shares)

\* C7 witness: shares held with a commission and a slippage
C7_Witness ==
    /\ Ran1
    /\ out1.shares > 0
    /\ w1.commission > 0 /\ w1.slippage > 0
    /\ out1.metrics.total_risk > out1.metrics.risk_per_share * out1.shares
    /\ out1.metrics.total_profit < out1.metrics.profit_per_share * out1.shares

\* C8: with maxPortfolioPercent > 0 (and an entry price to divide by),
\* allowedShares = floor((maxPortfolioPercent/100 * capital) / entryPrice); if
\* the candidate share count exceeds it the share count becomes allowedShares
\* and the metrics are recomputed for it with the same commission and
\* slippage; otherwise shares and metrics stay as they were.
C8_PortfolioCap ==
    (Ran1 /\ w1.max_position_pct > 0 /\ w1.current_price > 0) =>
        /\ out1.status = "ok"
        /\ IF out1.shown.shares * 100 * w1.current_price
                  > w1.max_position_pct * w1.total_investment
           THEN /\ IsFloor(out1.shares,
                           w1.max_position_pct * w1.total_investment,
                           100 * w1.current_price)
                /\ out1.required_investment = out1.shares * w1.current_price
                /\ Derived(out1.metrics, w1.current_price, w1.stop_loss,
                           w1.target_price, out1.shares,
                           w1.commission, w1.slippage)
                /\ out1.metrics.reward_risk_ratio
                       = out1.shown.metrics.reward_risk_ratio
                /\ out1.warned
           ELSE /\ Position(out1) = out1.shown
                /\ ~out1.warned

\* C8 witness: the cap has cut a position that carries costs
C8_Witness ==
    /\ out1.status = "ok"
    /\ w1.max_position_pct > 0
    /\ 0 < out1.shares /\ out1.shares < out1.shown.shares
    /\ w1.commission + w1.slippage > 0
    /\ out1.metrics.total_risk # out1.shown.metrics.total_risk

\* C9: both clamps only decrease: the share count after the portfolio cap
\* and after the affordable-shares clamp is <= the share count before it.
C9_ClampsDecrease ==
    /\ out1.status = "ok" => out1.shares <= out1.shown.shares
    /\ (out2.status = "ok" /\ out2.adjusted) =>
           out2.shares <= out2.shown.shares

\* C9 witness: both clamps have cut their share count in the same run
C9_Witness ==
    /\ out1.status = "ok" /\ out1.shares < out1.shown.shares
    /\ out2.status = "ok" /\ out2.adjusted
    /\ out2.shares < out2.shown.shares

\* C10: applying the same portfolio cap, or the same affordable-shares clamp,
\* once more to the clamped position leaves shares and metrics unchanged.
C10_ClampsIdempotent ==
    /\ out1.status = "ok" =>
           LET again == tab1_portfolio_cap(w1, Position(out1))
           IN  /\ again.status = "ok"
               /\ Position(again) = Position(out1)
    /\ (out2.status = "ok" /\ out2.adjusted) =>
           LET again == tab2_adjust_shares(w2, Position(out2))
           IN  /\ again.status = "ok"
               /\ Position(again) = Position(out2)

\* C10 witness: both clamps have cut a position that keeps some shares
C10_Witness ==
    /\ out1.status = "ok" /\ 0 < out1.shares /\ out1.shares < out1.shown.shares
    /\ out2.status = "ok" /\ out2.adjusted
    /\ 0 < out2.shares /\ out2.shares < out2.shown.shares

\* C11: the portfolio cap and the affordable-shares clamp are total: for every
\* entry price >= 0 (0 included), capital >= 0 and percentage in 0..100 they
\* end with a share count and metrics, and no run raises.
C11_ClampsTotal ==
    /\ Ran1 => out1.status = "ok"
    /\ (Ran2 /\ out2.adjusted) => out2.status = "ok"

Helpers == {"calc_shares_from_investment", "calc_shares_by_risk", "calc_metrics"}

C13_ZeroShares ==
    /\ (Ran1 /\ (w1.current_price <= 0 \/ w1.total_investment = 0)) =>
           out1.shown.shares = 0
    /\ \A p \in Prices :
           /\ calc_shares_from_investment(w1.total_investment, -p) = 0
           /\ p > 0 => calc_shares_from_investment(0, p) = 0

\* C13 witness: money to invest at an entry price of 0
C13_Witness ==
    /\ Ran1
    /\ w1.current_price = 0 /\ w1.total_investment > 0
    /\ out1.shown.shares = 0

\* C14: the share count is a non-negative integer at every stage (from the
\* investment, from the risk limit, after the portfolio cap and after the
\* affordable-shares clamp), and is truncated, never rounded up: each stage's
\* share count times its divisor stays within the amount divided.
C14_SharesTruncated ==
    /\ Ran1 =>
           /\ out1.shown.shares \in Nat
           /\ out1.shown.shares * w1.current_price <= w1.total_investment
           /\ out1.shares \in Nat
           /\ (out1.status = "ok" /\ out1.warned) =>
                  out1.shares * 100 * w1.current_price
                      <= w1.max_position_pct * w1.total_investment
    /\ Ran2 =>
           /\ out2.shown.shares \in Nat
           /\ out2.shown.shares * out2.raw_risk_per_share
                  <= out2.computed_max_risk
           /\ out2.shares \in Nat
           /\ (out2.status = "ok" /\ out2.adjusted) =>
                  out2.shares * w2.entry_price2 <= w2.capital2

\* C14 witness: both clamps have cut the share count, and every quotient of
\* the run had a remainder
C14_Witness ==
    /\ out1.status = "ok" /\ out1.warned
    /\ out1.shown.shares * w1.current_price < w1.total_investment
    /\ 0 < out1.shares
    /\ out1.shares * 100 * w1.current_price
           < w1.max_position_pct * w1.total_investment
    /\ out2.status = "ok" /\ out2.adjusted
    /\ 0 < out2.shares /\ out2.shares < out2.shown.shares
    /\ out2.shares * w2.entry_price2 < w2.capital2

\* C15: with entry and stop fixed a larger max risk never gives fewer shares
\* by risk, and with the entry price fixed a larger total investment never
\* gives fewer shares from the investment.
C15_SizingMonotone ==
    /\ Ran1 =>
           \A more \in Amounts :
               calc_shares_from_investment(w1.total_investment + more,
                                           w1.current_price)
                   >= out1.shown.shares
    /\ Ran2 =>
           \A more \in Amounts :
               calc_shares_by_risk(out2.computed_max_risk + more,
                                   w2.entry_price2, w2.stop_loss2).shares
                   >= out2.shown.shares

\* C15 witness: in both tabs some larger amount buys strictly more shares
\* and some larger amount buys the same number
C15_Witness ==
    /\ Ran1 /\ Ran2
    /\ \E more \in Amounts :
           calc_shares_from_investment(w1.total_investment + more,
                                       w1.current_price) > out1.shown.shares
    /\ \E more \in Amounts \ {0} :
           calc_shares_from_investment(w1.total_investment + more,
                                       w1.current_price) = out1.shown.shares
    /\ \E more \in Amounts :
           calc_shares_by_risk(out2.computed_max_risk + more,
                               w2.entry_price2, w2.stop_loss2).shares
               > out2.shown.shares
    /\ \E more \in Amounts \ {0} :
           calc_shares_by_risk(out2.computed_max_risk + more,
                               w2.entry_price2, w2.stop_loss2).shares
               = out2.shown.shares

Ran3 == out3.status # "not run"

C19_ResultsAreFinal ==
    (Ran1 /\ out1.status = "ok") =>
        /\ out1.shown.shares = out1.shares
        /\ out1.shown.required_investment = out1.required_investment
        /\ out1.shown.metrics.total_risk = out1.metrics.total_risk

\* C20: in the risk-limit flow a required input that is missing or zero
\* (entry price, stop loss or max risk) is reported only by the 'Please
\* provide the following values' warning, never by the error message, and
\* the sizing made with it has 0 shares or an undefined ratio.
C20_MissingIsAwaitingInput ==
    (Ran2 /\ out2.missing # {}) =>
        /\ out2.guidance # "error: Stop Loss must be lower than Entry Price"
        /\ \/ out2.shown.shares = 0
           \/ out2.shown.metrics.reward_risk_ratio = None

\* C21: for every entry > stop > 0 and max risk >= 0 the total risk of the
\* position sized by risk, as the risk-limit tab reports it, is at most the
\* max risk, and it still is after the affordable-shares adjustment: the
\* loss if the stop is hit never exceeds the stated maximum.
C21_RiskWithinLimit ==
    (Ran2 /\ w2.entry_price2 > w2.stop_loss2 /\ w2.stop_loss2 > 0) =>
        /\ out2.shown.metrics.total_risk <= out2.computed_max_risk
        /\ out2.shown.metrics.total_risk
               = (w2.entry_price2 - w2.stop_loss2) * out2.shown.shares
        /\ out2.status = "ok"
        /\ out2.metrics.total_risk <= out2.computed_max_risk
        /\ out2.metrics.total_risk
               = (w2.entry_price2 - w2.stop_loss2) * out2.shares

\* C21 witness: a position with a positive total risk that uses the whole
\* max risk has been adjusted to fewer, affordable shares
C21_Witness ==
    /\ Ran2 /\ out2.adjusted
    /\ w2.entry_price2 > w2.stop_loss2 /\ w2.stop_loss2 > 0
    /\ out2.shown.metrics.total_risk = out2.computed_max_risk
    /\ out2.shares < out2.shown.shares
    /\ out2.metrics.total_risk > 0

\* C22: the affordable-shares adjustment, requested with an entry price > 0,
\* makes the share count min(shares by risk, floor(capital / entry)),
\* recomputes the metrics for that count (no costs) and leaves a required
\* investment shares * entry that is at most the capital.
C22_AffordableClamp ==
    (Ran2 /\ out2.adjusted /\ w2.entry_price2 > 0) =>
        /\ out2.status = "ok"
        /\ \E affordable \in 0..w2.capital2 :
               /\ IsFloor(affordable, w2.capital2, w2.entry_price2)
               /\ out2.shares = IF out2.shown.shares <= affordable
                                THEN out2.shown.shares ELSE affordable
        /\ Derived(out2.metrics, w2.entry_price2, w2.stop_loss2, w2.target2,
                   out2.shares, 0, 0)
        /\ out2.required_investment = out2.shares * w2.entry_price2
        /\ out2.required_investment <= w2.capital2

\* C22 witness: a position that exceeded the capital has been adjusted to a
\* positive affordable share count with a smaller total risk
C22_Witness ==
    /\ Ran2 /\ out2.adjusted /\ out2.status = "ok"
    /\ out2.exceeds_capital
    /\ 0 < out2.shares /\ out2.shares < out2.shown.shares
    /\ out2.metrics.total_risk < out2.shown.metrics.total_risk

\* C23: in '% of Capital' mode the max risk is riskPercent / 100 * capital
\* with riskPercent in 0..100, so it is at most the capital, and the total
\* risk of the sized position is at most riskPercent percent of the capital.
C23_PercentOfCapital ==
    (Ran2 /\ w2.risk_input_type = "% of Capital") =>
        /\ w2.percent \in 0..100
        /\ 100 * out2.computed_max_risk = w2.percent * w2.capital2
        /\ out2.computed_max_risk <= w2.capital2
        /\ 100 * out2.shown.metrics.total_risk <= w2.percent * w2.capital2
        /\ out2.status = "ok" =>
               100 * out2.metrics.total_risk <= w2.percent * w2.capital2

\* C23 witness: a percentage strictly between 0 and 100 of a positive capital
\* has sized a position with a positive total risk
C23_Witness ==
    /\ Ran2 /\ w2.risk_input_type = "% of Capital"
    /\ 0 < w2.percent /\ w2.percent < 100
    /\ out2.computed_max_risk > 0
    /\ out2.shown.shares > 0
    /\ out2.shown.metrics.total_risk > 0

\* C24: a portfolio cap of 0 percent means no cap: the cap step leaves the
\* share count, the required investment and every metric exactly as they
\* were computed from the investment amount, and gives no warning.
C24_ZeroPercentIsNoCap ==
    (Ran1 /\ w1.max_position_pct = 0) =>
        /\ out1.status = "ok"
        /\ ~out1.warned
        /\ out1.shares = out1.shown.shares
        /\ out1.required_investment = out1.shown.required_investment
        /\ out1.metrics = out1.shown.metrics
        /\ w1.current_price > 0 =>
               IsFloor(out1.shares, w1.total_investment, w1.current_price)

\* C24 witness: a position of at least one share with costs went through the
\* cap step with a percentage of 0
C24_Witness ==
    /\ Ran1 /\ w1.max_position_pct = 0
    /\ out1.shares > 0
    /\ w1.commission + w1.slippage > 0
    /\ out1.metrics.total_risk # 0

\* C25: after the capital-mode pipeline with a cap percentage > 0 and an
\* entry price > 0 the final position respects the cap:
\* shares * entry <= maxPortfolioPercent / 100 * totalInvestment.
C25_CapRespected ==
    (Ran1 /\ w1.max_position_pct > 0 /\ w1.current_price > 0) =>
        /\ out1.status = "ok"
        /\ 100 * out1.shares * w1.current_price
               <= w1.max_position_pct * w1.total_investment
        /\ 100 * out1.required_investment
               <= w1.max_position_pct * w1.total_investment

\* C25 witness: the cap amount is not a whole number of shares and the
\* candidate position was above it
C25_Witness ==
    /\ Ran1 /\ out1.status = "ok" /\ out1.warned
    /\ w1.max_position_pct > 0 /\ w1.current_price > 0
    /\ 100 * out1.shares * w1.current_price
           < w1.max_position_pct * w1.total_investment
    /\ out1.shares > 0

Ran21 == out21.status # "not run"

\* C26: in the v2.1 calculator the reward:risk ratio is undefined whenever
\* the risk per share given to compute_reward_risk is non-positive: with a
\* stop at or above entry neither tab computes a ratio, in particular no
\* negative one.
C26_V21RatioUndefined ==
    Ran21 =>
        /\ (out21.tab1.adj_risk # None /\ out21.tab1.adj_risk[1] <= 0) =>
               out21.tab1.rr_ratio = None
        /\ (out21.tab1.risk_per_share # None
               /\ out21.tab1.risk_per_share[1] <= 0) =>
               out21.tab1.rr_ratio = None
        /\ (out21.tab2.rendered /\ out21.tab2.risk_per_share2[1] <= 0) =>
               out21.tab2.rr_ratio2 = None

RanLD == outld.status # "not run"

\* C27: the light/dark variant, whose notes say that commission and slippage
\* are conservatively included in calculations, includes the commission the
\* user entered: with a commission above 0 the reported total risk is larger
\* and the reported potential profit smaller than with commission 0 and the
\* other inputs equal.
C27_CommissionIncluded ==
    (RanLD /\ outld.rendered /\ outld.risk_per_share > 0 /\ wld.commission > 0) =>
        LET free == Tab1_lightdark([wld EXCEPT !.commission = 0])
        IN  /\ outld.total_risk.num * free.total_risk.den
                   > free.total_risk.num * outld.total_risk.den
            /\ outld.potential_profit.num * free.potential_profit.den
                   < free.potential_profit.num * outld.potential_profit.den

\* a row of the log holds the share count by risk alone, with its metrics
Unclamped(row) ==
    LET diff == row.Entry_Price - row.Stop_Loss
    IN  /\ IF diff <= 0 THEN row.Shares_by_Risk = 0
           ELSE IsFloor(row.Shares_by_Risk, row.Max_Risk_Used, diff)
        /\ row.Required_Investment = row.Shares_by_Risk * row.Entry_Price
        /\ row.Total_Risk = diff * row.Shares_by_Risk
        /\ row.Total_Profit
               = (row.Target_Price - row.Entry_Price) * row.Shares_by_Risk

\* C28: a button being true only in the run its click triggers, the
\* affordable-shares adjustment lasts for that one run: a run that is not
\* triggered by the Adjust button, the run of 'Save this position sizing to
\* session log' included, computes the shares from the max risk alone, so
\* every row appended to trade_log holds the unclamped share count by risk
\* and its metrics.
C28_ClampLastsOneRun ==
    [][ /\ (Ran2' /\ ~( /\ ~out2'.adjusted
                           /\ out2'.shares = out2'.shown.shares
                           /\ out2'.metrics = out2'.shown.metrics )) =>
               ~(Rerun \/ ClickSaveValues \/ ClickSaveLog)
        /\ Len(trade_log') > Len(trade_log) =>
               /\ ~out2'.adjusted
               /\ trade_log'[Len(trade_log')].Shares_by_Risk = out2'.shown.shares
        /\ \A i \in 1..Len(trade_log') : Unclamped(trade_log'[i]) ]_vars

\* C28 witness: the logged row holds more shares than the capital affords,
\* and the adjustment, clicked after the save, shows fewer
C28_Witness ==
    /\ Len(trade_log) > 0
    /\ Ran2 /\ out2.adjusted /\ out2.status = "ok"
    /\ trade_log[1].Shares_by_Risk = out2.shown.shares
    /\ trade_log[1].Required_Investment > w2.capital2
    /\ out2.shares < trade_log[1].Shares_by_Risk

====
